---- MODULE Spec2Model ----
(***************************************************************************)
(* Model of tools/build_site.py: the build script that loads an experiment *)
(* results table, sanitizes it, writes site/data/models.csv and renders    *)
(* site/index.html with its embedded client-side table script.             *)
(*                                                                         *)
(* Representation.                                                         *)
(*   - a text is a sequence of one-character strings, so that strip and    *)
(*     numeric parsing work on characters;                                 *)
(*   - a number is an integer count of hundredths (0.81 is 81, 1 is 100);  *)
(*   - a cell is a record [k, n, s]: k = "num" (value n), "inf"            *)
(*     (+infinity), "nan" (missing, pandas NaN) or "str" (text s);         *)
(*   - a table is [columns, rows]: columns a sequence of names, rows a     *)
(*     sequence of [idx, cells], idx the pandas index label of the row.    *)
(***************************************************************************)
EXTENDS Integers, Sequences, FiniteSets, TLC

VARIABLES
    inputs,        \* candidate input files that exist under the project root
    fileData,      \* content of the input file: [readable, table]
    dirs,          \* output directories that exist
    csvFile,       \* site/data/models.csv
    htmlFile,      \* site/index.html
    pc,            \* position of main()
    exitCode,      \* process exit code; -1 while the process runs
    out,           \* lines printed so far
    halt,          \* [stage, reason] of the fatal condition that ended the run
    data_path,     \* main: data_path
    df,            \* main: df, the loaded table
    df_processed,  \* main: df_processed, the sanitized table
    view,          \* browser: state of the embedded script
    console,       \* browser: console.error calls
    tableBody,     \* browser: content of #models-table
    fetches        \* browser: number of Papa.parse downloads issued

vars == <<inputs, fileData, dirs, csvFile, htmlFile, pc, exitCode, out, halt,
          data_path, df, df_processed, view, console, tableBody, fetches>>

buildVars == <<inputs, fileData, dirs, csvFile, htmlFile, pc, exitCode, out, halt,
               data_path, df, df_processed>>
browserVars == <<view, console, tableBody, fetches>>

\* Largest number of rows of a table drawn from the row sweep.
MaxRows == 2

Range(s) == {s[i] : i \in 1..Len(s)}

---------------------------------------------------------------------------
\* Cells

NaN == [k |-> "nan", n |-> 0, s |-> <<>>]
Inf == [k |-> "inf", n |-> 0, s |-> <<>>]
Num(n) == [k |-> "num", n |-> n, s |-> <<>>]
Str(s) == [k |-> "str", n |-> 0, s |-> s]

\* pandas isna
IsNa(c) == c.k = "nan"

---------------------------------------------------------------------------
\* Texts

Whitespace == {" "}
DigitChars == <<"0", "1", "2", "3", "4", "5", "6", "7", "8", "9">>

RECURSIVE LStrip(_)
LStrip(s) == IF s # <<>> /\ Head(s) \in Whitespace THEN LStrip(Tail(s)) ELSE s

RECURSIVE RStrip(_)
RStrip(s) ==
    IF s # <<>> /\ s[Len(s)] \in Whitespace
    THEN RStrip(SubSeq(s, 1, Len(s) - 1))
    ELSE s

\* str.strip()
Strip(s) == RStrip(LStrip(s))

IsDigits(s) == s # <<>> /\ \A i \in 1..Len(s) : s[i] \in Range(DigitChars)
DigitVal(c) == (CHOOSE d \in 1..10 : DigitChars[d] = c) - 1

RECURSIVE DigitsVal(_)
DigitsVal(s) ==
    IF s = <<>> THEN 0
    ELSE 10 * DigitsVal(SubSeq(s, 1, Len(s) - 1)) + DigitVal(s[Len(s)])

\* The number a text denotes, in hundredths: digits, or digits "." one or two
\* digits. Any other text of the model's alphabet is not a number.
ParseNum(s) ==
    LET dots == {i \in 1..Len(s) : s[i] = "."} IN
    IF dots = {} THEN
        IF IsDigits(s) THEN Num(100 * DigitsVal(s)) ELSE NaN
    ELSE IF Cardinality(dots) = 1 THEN
        LET d == CHOOSE i \in dots : TRUE
            ip == SubSeq(s, 1, d - 1)
            fp == SubSeq(s, d + 1, Len(s))
        IN  IF IsDigits(ip) /\ IsDigits(fp) /\ Len(fp) <= 2
            THEN Num(100 * DigitsVal(ip)
                     + (IF Len(fp) = 1 THEN 10 * DigitsVal(fp) ELSE DigitsVal(fp)))
            ELSE NaN
    ELSE NaN

RECURSIVE NatText(_)
NatText(n) ==
    IF n < 10 THEN <<DigitChars[n + 1]>>
    ELSE NatText(n \div 10) \o <<DigitChars[(n % 10) + 1]>>

\* str(x) of a float: "0.81", "0.5", "5.0"
FloatText(n) ==
    NatText(n \div 100) \o <<".">> \o
    (IF n % 10 = 0 THEN <<DigitChars[((n % 100) \div 10) + 1]>>
     ELSE <<DigitChars[((n % 100) \div 10) + 1], DigitChars[(n % 10) + 1]>>)

\* One element of Series.astype(str): a missing value becomes the text "nan"
\* (a pandas that keeps it missing compares it unequal to '' all the same).
AsStr(c) ==
    CASE c.k = "str" -> c.s
      [] c.k = "nan" -> <<"n", "a", "n">>
      [] c.k = "inf" -> <<"i", "n", "f">>
      [] c.k = "num" -> FloatText(c.n)

\* One element of pd.to_numeric(..., errors='coerce')
ToNumeric(c) == IF c.k = "str" THEN ParseNum(c.s) ELSE c

\* a >= b on numeric cells
CellGE(a, b) == a.k = "inf" \/ (a.k = "num" /\ b.k = "num" /\ a.n >= b.n)

---------------------------------------------------------------------------
\* sanitize_and_select_columns

desired_columns ==
    <<"model_id", "dataset", "model_family", "model_type",
      "best_val_accuracy", "best_test_accuracy", "val_loss", "test_loss",
      "parameter_count", "training_time_hours">>

numeric_columns ==
    <<"best_val_accuracy", "best_test_accuracy", "val_loss", "test_loss",
      "parameter_count", "training_time_hours">>

available_columns(d) == SelectSeq(desired_columns, LAMBDA col : col \in Range(d.columns))

missing_columns(d) == Range(desired_columns) \ Range(available_columns(d))

\* df[available_columns].copy()
SelectColumns(d, cols) ==
    [columns |-> cols,
     rows |-> [i \in 1..Len(d.rows) |->
                 [idx |-> d.rows[i].idx,
                  cells |-> [c \in Range(cols) |-> d.rows[i].cells[c]]]]]

\* the to_numeric loop over numeric_columns
CoerceNumeric(d) ==
    [d EXCEPT !.rows =
        [i \in 1..Len(d.rows) |->
            [d.rows[i] EXCEPT !.cells =
                [c \in Range(d.columns) |->
                    IF c \in Range(numeric_columns)
                    THEN ToNumeric(d.rows[i].cells[c])
                    ELSE d.rows[i].cells[c]]]]]

FillColumns ==
    {"best_val_accuracy", "best_test_accuracy", "val_loss", "test_loss",
     "parameter_count", "training_time_hours"}

\* a fillna dictionary that fills the loss columns with 0 as well
FillDefaultLossAsZero(col) == Num(0)

\* the dictionary handed to fillna
FillDefault(col) ==
    CASE col = "best_val_accuracy" -> Num(0)
      [] col = "best_test_accuracy" -> Num(0)
      [] col = "val_loss" -> Inf
      [] col = "test_loss" -> Inf
      [] col = "parameter_count" -> Num(0)
      [] col = "training_time_hours" -> Num(0)

FillNa(d) ==
    [d EXCEPT !.rows =
        [i \in 1..Len(d.rows) |->
            [d.rows[i] EXCEPT !.cells =
                [c \in Range(d.columns) |->
                    IF c \in FillColumns /\ IsNa(d.rows[i].cells[c])
                    THEN FillDefault(c)
                    ELSE d.rows[i].cells[c]]]]]

\* df_selected['model_id'].astype(str).str.strip()
NormalizeId(d) ==
    [d EXCEPT !.rows =
        [i \in 1..Len(d.rows) |->
            [d.rows[i] EXCEPT !.cells["model_id"] =
                Str(Strip(AsStr(d.rows[i].cells["model_id"])))]]]

\* df_selected[df_selected['model_id'] != '']
DropEmptyIds(d) ==
    [d EXCEPT !.rows = SelectSeq(d.rows, LAMBDA r : r.cells["model_id"] # Str(<<>>))]

\* the order sort_values would give with ascending=True
IsDescendingAscendingBug(rows, col) ==
    \A i \in 1..(Len(rows) - 1) : CellGE(rows[i + 1].cells[col], rows[i].cells[col])

IsDescending(rows, col) ==
    \A i \in 1..(Len(rows) - 1) : CellGE(rows[i].cells[col], rows[i + 1].cells[col])

\* the row order left alone when there is no ranking column
KeepInputOrder(rows) == {rows}

\* sort_values(col, ascending=False): the default sort kind is not stable, so
\* every descending arrangement of the rows is a possible outcome.
SortValuesDescending(rows, col) ==
    {[i \in 1..Len(rows) |-> rows[p[i]]] :
        p \in {q \in [1..Len(rows) -> 1..Len(rows)] :
                 /\ \A i, j \in 1..Len(rows) : i # j => q[i] # q[j]
                 /\ IsDescending([i \in 1..Len(rows) |-> rows[q[i]]], col)}}

\* The tables sanitize_and_select_columns can return for d; requires model_id.
SanitizeOutcomes(d) ==
    LET kept == DropEmptyIds(NormalizeId(FillNa(CoerceNumeric(
                    SelectColumns(d, available_columns(d))))))
        orders == IF "best_test_accuracy" \in Range(kept.columns)
                  THEN SortValuesDescending(kept.rows, "best_test_accuracy")
                  ELSE KeepInputOrder(kept.rows)
    IN  {[kept EXCEPT !.rows = o] : o \in orders}

---------------------------------------------------------------------------
\* load_experiment_data

NoTable == [columns |-> <<>>, rows |-> <<>>]
NoPath == [name |-> "", suffix |-> ""]

\* default na_values of read_csv, among the texts of the model
NaValues == {<<>>, <<"n", "/", "a">>}

RawCell(c) == IF c.k = "str" /\ c.s \in NaValues THEN NaN ELSE c

\* pd.read_csv: a field that is empty or an NA marker is missing; a column whose
\* other fields are all numbers is numeric, any other column keeps its texts.
ReadCsv(raw) ==
    LET numericCol(c) ==
            \A i \in 1..Len(raw.rows) :
                \/ IsNa(RawCell(raw.rows[i].cells[c]))
                \/ ~IsNa(ToNumeric(raw.rows[i].cells[c]))
    IN  [raw EXCEPT !.rows =
            [i \in 1..Len(raw.rows) |->
                [raw.rows[i] EXCEPT !.cells =
                    [c \in Range(raw.columns) |->
                        IF IsNa(RawCell(raw.rows[i].cells[c])) THEN NaN
                        ELSE IF numericCol(c) THEN ToNumeric(raw.rows[i].cells[c])
                        ELSE raw.rows[i].cells[c]]]]]

\* pd.read_pickle: the table as it was stored
ReadPickle(stored) == stored

Msg(m, set, seq, n) == [msg |-> m, set |-> set, seq |-> seq, n |-> n]

Halted(stage, reason) == [stage |-> stage, reason |-> reason]
Running == Halted("", "")

\* sys.exit(1), or an exception no handler catches: the interpreter ends with 1
Die(stage, reason, printed) ==
    /\ pc' = "exited"
    /\ exitCode' = 1
    /\ halt' = Halted(stage, reason)
    /\ out' = out \o printed

Load ==
    /\ pc = "load"
    /\ UNCHANGED <<inputs, fileData, dirs, csvFile, htmlFile, data_path, df_processed>>
    /\ IF data_path \notin inputs THEN
            /\ Die("load", "not_found", <<Msg("Error: Data file not found", {}, <<>>, 0)>>)
            /\ df' = df
       ELSE IF data_path.suffix \notin {".csv", ".pkl", ".pickle"} THEN
            /\ Die("load", "unsupported_format",
                   <<Msg("Error: Unsupported file format", {data_path.suffix}, <<>>, 0)>>)
            /\ df' = df
       ELSE IF ~fileData.readable THEN
            /\ Die("load", "read_error", <<>>)
            /\ df' = df
       ELSE
            /\ df' = IF data_path.suffix = ".csv"
                     THEN ReadCsv(fileData.table)
                     ELSE ReadPickle(fileData.table)
            /\ out' = Append(out, Msg("Loaded experiments", {}, <<>>, Len(df'.rows)))
            /\ pc' = "sanitize"
            /\ UNCHANGED <<exitCode, halt>>
    /\ UNCHANGED browserVars

---------------------------------------------------------------------------
\* sanitize_and_select_columns, as main calls it

MissingWarning(d) ==
    IF Len(available_columns(d)) < Len(desired_columns)
    THEN <<Msg("Warning: Missing columns", missing_columns(d), <<>>, 0),
           Msg("Available columns", {}, d.columns, 0)>>
    ELSE <<>>

Sanitize ==
    /\ pc = "sanitize"
    /\ UNCHANGED <<inputs, fileData, dirs, csvFile, htmlFile, data_path, df>>
    /\ IF "model_id" \notin Range(available_columns(df)) THEN
            \* df_selected['model_id'] raises KeyError
            /\ Die("sanitize", "KeyError: model_id", MissingWarning(df))
            /\ df_processed' = df_processed
       ELSE
            /\ df_processed' \in SanitizeOutcomes(df)
            /\ out' = out \o MissingWarning(df)
                      \o <<Msg("Selected models", {}, <<>>, Len(df_processed'.rows))>>
            /\ pc' = "write_csv"
            /\ UNCHANGED <<exitCode, halt>>
    /\ UNCHANGED browserVars

---------------------------------------------------------------------------
\* generate_html

Absent == [state |-> "absent", header |-> <<>>, ids |-> <<>>]
OldCsv == [state |-> "old", header |-> <<>>, ids |-> <<>>]

\* df.to_csv(output_csv, index=False): the header row and, of the data rows, the
\* identifier field of each, in row order
ToCsv(d) ==
    [state |-> "written",
     header |-> d.columns,
     ids |-> [i \in 1..Len(d.rows) |-> d.rows[i].cells["model_id"].s]]

\* col.replace("_", " ").title()
Title(col) ==
    CASE col = "model_id" -> "Model Id"
      [] col = "dataset" -> "Dataset"
      [] col = "model_family" -> "Model Family"
      [] col = "model_type" -> "Model Type"
      [] col = "best_val_accuracy" -> "Best Val Accuracy"
      [] col = "best_test_accuracy" -> "Best Test Accuracy"
      [] col = "val_loss" -> "Val Loss"
      [] col = "test_loss" -> "Test Loss"
      [] col = "parameter_count" -> "Parameter Count"
      [] col = "training_time_hours" -> "Training Time Hours"

\* len(df[col].unique()) if col in df.columns else 0
UniqueCount(d, col) ==
    IF col \in Range(d.columns)
    THEN Cardinality({d.rows[i].cells[col] : i \in 1..Len(d.rows)})
    ELSE 0

\* f"{df['parameter_count'].max()/1e6:.1f}": tenths of a million, or nan for an
\* empty column; requires the column
MaxParameters(d) ==
    IF d.rows = <<>> THEN [k |-> "nan", tenths |-> 0]
    ELSE LET top == CHOOSE i \in 1..Len(d.rows) :
                        \A j \in 1..Len(d.rows) :
                            CellGE(d.rows[i].cells["parameter_count"],
                                   d.rows[j].cells["parameter_count"])
             v == d.rows[top].cells["parameter_count"]
         IN  IF v.k = "inf" THEN [k |-> "inf", tenths |-> 0]
             ELSE [k |-> "num", tenths |-> (v.n + 5000000) \div 10000000]

\* the column index of the DataTable's initial order
DefaultOrderColumn == 4

\* order: [[4, 'desc']], whatever the page's columns are
DefaultOrder(columns) == <<DefaultOrderColumn, "desc">>

NoPage ==
    [total |-> 0, datasets |-> 0, families |-> 0,
     maxParams |-> [k |-> "nan", tenths |-> 0],
     headers |-> <<>>, js_columns |-> <<>>, column_defs |-> <<>>,
     order |-> <<0, "">>, colspan |-> 0]

\* html_template; requires parameter_count among the columns
Render(d) ==
    [total |-> Len(d.rows),
     datasets |-> UniqueCount(d, "dataset"),
     families |-> UniqueCount(d, "model_family"),
     maxParams |-> MaxParameters(d),
     headers |-> [i \in 1..Len(d.columns) |-> Title(d.columns[i])],
     js_columns |-> d.columns,
     column_defs |-> [i \in 1..Len(d.columns) |-> Title(d.columns[i])],
     order |-> DefaultOrder(d.columns),
     colspan |-> Len(d.columns)]

NoHtml == [state |-> "absent", page |-> NoPage]
OldHtml == [state |-> "old", page |-> NoPage]

GenerateHtml ==
    /\ pc = "gen_html"
    /\ UNCHANGED <<inputs, fileData, dirs, csvFile, data_path, df, df_processed>>
    /\ IF "parameter_count" \notin Range(df_processed.columns) THEN
            \* df['parameter_count'] raises KeyError while the template is built
            /\ Die("gen_html", "KeyError: parameter_count", <<>>)
            /\ htmlFile' = htmlFile
       ELSE \E ok \in BOOLEAN :
            IF ok THEN
                /\ htmlFile' = [state |-> "written", page |-> Render(df_processed)]
                /\ out' = Append(out, Msg("Generated HTML page", {}, <<>>, 0))
                /\ pc' = "finish"
                /\ UNCHANGED <<exitCode, halt>>
            ELSE
                \* open() or write() raises OSError
                /\ Die("gen_html", "OSError", <<>>)
                /\ htmlFile' = htmlFile
    /\ UNCHANGED browserVars

---------------------------------------------------------------------------
\* main

data_paths ==
    <<[name |-> "experiment_results", suffix |-> ".csv"],
      [name |-> "experiment_results", suffix |-> ".pkl"],
      [name |-> "experiment_results", suffix |-> ".pickle"]>>

\* the loop over data_paths: the first that exists, or None
FirstExisting(existing) ==
    IF \E i \in 1..Len(data_paths) : data_paths[i] \in existing
    THEN data_paths[CHOOSE i \in 1..Len(data_paths) :
                        /\ data_paths[i] \in existing
                        /\ \A j \in 1..(i - 1) : data_paths[j] \notin existing]
    ELSE NoPath

\* input discovery with the output directories made before the check
FindInputMkdirFirstBug ==
    /\ pc = "start"
    /\ data_path' = FirstExisting(inputs)
    /\ dirs' = dirs \cup {"site", "site/data"}
    /\ IF data_path' = NoPath THEN
            Die("discover", "no_input",
                <<Msg("Error: No experiment data file found. Expected one of:", {}, <<>>, 0)>>
                \o [i \in 1..Len(data_paths) |-> Msg("path", {data_paths[i]}, <<>>, 0)])
       ELSE /\ pc' = "load"
            /\ UNCHANGED <<exitCode, halt, out>>
    /\ UNCHANGED <<inputs, fileData, csvFile, htmlFile, df, df_processed>>
    /\ UNCHANGED browserVars

FindInput ==
    /\ pc = "start"
    /\ data_path' = FirstExisting(inputs)
    /\ IF data_path' = NoPath THEN
            Die("discover", "no_input",
                <<Msg("Error: No experiment data file found. Expected one of:", {}, <<>>, 0)>>
                \o [i \in 1..Len(data_paths) |-> Msg("path", {data_paths[i]}, <<>>, 0)])
       ELSE /\ pc' = "mkdir"
            /\ UNCHANGED <<exitCode, halt, out>>
    /\ UNCHANGED <<inputs, fileData, dirs, csvFile, htmlFile, df, df_processed>>
    /\ UNCHANGED browserVars

\* data_dir.mkdir(parents=True, exist_ok=True)
MkDirs ==
    /\ pc = "mkdir"
    /\ \E ok \in BOOLEAN :
        IF ok THEN
            /\ dirs' = dirs \cup {"site", "site/data"}
            /\ pc' = "load"
            /\ UNCHANGED <<exitCode, halt, out>>
        ELSE
            /\ Die("mkdir", "OSError", <<>>)
            /\ dirs' = dirs
    /\ UNCHANGED <<inputs, fileData, csvFile, htmlFile, data_path, df, df_processed>>
    /\ UNCHANGED browserVars

\* df_processed.to_csv(output_csv, index=False) and the line printed after it
WriteCsv ==
    /\ pc = "write_csv"
    /\ \E ok \in BOOLEAN :
        IF ok THEN
            /\ csvFile' = ToCsv(df_processed)
            /\ out' = Append(out, Msg("Saved processed data", {}, <<>>, 0))
            /\ pc' = "gen_html"
            /\ UNCHANGED <<exitCode, halt>>
        ELSE
            /\ Die("write_csv", "OSError", <<>>)
            /\ csvFile' = csvFile
    /\ UNCHANGED <<inputs, fileData, dirs, htmlFile, data_path, df, df_processed>>
    /\ UNCHANGED browserVars

\* the closing lines reached although generate_html has not returned
FinishAnywayBug ==
    /\ pc \in {"finish", "gen_html"}
    /\ pc' = "exited"
    /\ exitCode' = 0
    /\ out' = out \o <<Msg("Build complete!", {}, <<>>, 0),
                       Msg("To deploy to GitHub Pages", {}, <<>>, 0)>>
    /\ UNCHANGED <<inputs, fileData, dirs, csvFile, htmlFile, halt, data_path,
                   df, df_processed>>
    /\ UNCHANGED browserVars

\* the two closing lines of main, then the interpreter ends with 0
Finish ==
    /\ pc = "finish"
    /\ pc' = "exited"
    /\ exitCode' = 0
    /\ out' = out \o <<Msg("Build complete!", {}, <<>>, 0),
                       Msg("To deploy to GitHub Pages", {}, <<>>, 0)>>
    /\ UNCHANGED <<inputs, fileData, dirs, csvFile, htmlFile, halt, data_path,
                   df, df_processed>>
    /\ UNCHANGED browserVars

---------------------------------------------------------------------------
\* The script embedded in the page, run by the browser that views it

Skeleton == [kind |-> "skeleton", columns |-> <<>>, order |-> <<0, "">>,
             nrows |-> 0, colspan |-> 0]

\* $(document).ready: Papa.parse('data/models.csv', {download: true, ...})
OpenPage ==
    /\ exitCode = 0
    /\ htmlFile.state = "written"
    /\ view = "closed"
    /\ view' = "parsing"
    /\ fetches' = fetches + 1
    /\ UNCHANGED <<console, tableBody>>
    /\ UNCHANGED buildVars

\* complete: function(results); processedData is held by its row count and columns
ParseComplete ==
    /\ view = "parsing"
    /\ \E errors \in BOOLEAN :
        IF errors THEN
            \* results.errors.length > 0: console.error and return
            /\ console' = Append(console, "CSV parsing errors:")
            /\ view' = "parse_errors"
            /\ tableBody' = tableBody
        ELSE
            /\ tableBody' = [kind |-> "datatable",
                             columns |-> htmlFile.page.column_defs,
                             order |-> htmlFile.page.order,
                             nrows |-> Len(csvFile.ids),
                             colspan |-> 0]
            /\ view' = "shown"
            /\ console' = console
    /\ UNCHANGED fetches
    /\ UNCHANGED buildVars

\* error: function(error)
ParseError ==
    /\ view = "parsing"
    /\ console' = Append(console, "Error loading CSV:")
    /\ tableBody' = [kind |-> "error_row", columns |-> <<>>, order |-> <<0, "">>,
                     nrows |-> 0, colspan |-> htmlFile.page.colspan]
    /\ view' = "load_error"
    /\ UNCHANGED fetches
    /\ UNCHANGED buildVars

---------------------------------------------------------------------------
\* Input tables

TxtM1 == <<"m", "1">>
TxtM2 == <<"m", "2">>
TxtPaddedM1 == <<" ", "m", "1", " ">>
TxtBlank == <<" ">>
TxtD1 == <<"d", "1">>
TxtBad == <<"b", "a", "d">>
TxtNA == <<"n", "/", "a">>

IndexOf(seq, x) == CHOOSE i \in 1..Len(seq) : seq[i] = x

\* a table from its column list and, per row, the cells in column order
MkTable(cols, rowCells) ==
    [columns |-> cols,
     rows |-> [i \in 1..Len(rowCells) |->
                 [idx |-> i - 1,
                  cells |-> [c \in Range(cols) |-> rowCells[i][IndexOf(cols, c)]]]]]

\* the three-row file of the end-to-end scenario, as CSV fields
EndToEndCsv ==
    MkTable(<<"model_id", "dataset", "best_test_accuracy">>,
            << <<Str(TxtM1), Str(TxtD1), Str(<<"0", ".", "8", "1">>)>>,
               <<Str(<<>>), Str(TxtD1), Str(<<"0", ".", "5">>)>>,
               <<Str(TxtM2), Str(TxtD1), Str(TxtBad)>> >>)

FullCsv ==
    MkTable(desired_columns,
            << <<Str(TxtM1), Str(TxtD1), Str(<<"c", "n", "n">>), Str(<<"a">>),
                 Str(<<"0", ".", "9">>), Str(<<"0", ".", "2">>), Str(<<"0", ".", "5">>),
                 Str(TxtNA), Str(<<"1", "5", "0", "0", "0", "0", "0">>), Str(<<"2", ".", "5">>)>>,
               <<Str(TxtM2), Str(<<"d", "2">>), Str(<<"c", "n", "n">>), Str(<<"b">>),
                 Str(<<"0", ".", "8">>), Str(<<"0", ".", "7", "5">>), Str(<<>>),
                 Str(<<"1", ".", "2">>), Str(<<"9", "0", "0">>), Str(TxtBad)>> >>)

EmptyCsv == MkTable(desired_columns, <<>>)

NoIdCsv ==
    MkTable(<<"dataset", "best_test_accuracy", "parameter_count">>,
            << <<Str(TxtD1), Str(<<"0", ".", "5">>), Str(<<"9", "0", "0">>)>> >>)

NoAccuracyCsv ==
    MkTable(<<"parameter_count", "model_id", "notes">>,
            << <<Str(<<"9", "0", "0">>), Str(TxtM2), Str(<<"x">>)>>,
               <<Str(<<"1", "5", "0", "0", "0", "0", "0">>), Str(TxtPaddedM1), Str(<<>>)>> >>)

CsvTables == {EndToEndCsv, FullCsv, EmptyCsv, NoIdCsv, NoAccuracyCsv}

\* stored dataframes: the CSV tables as read, and one whose cells a CSV cannot give
PickleTables ==
    {ReadCsv(t) : t \in CsvTables} \cup
    {MkTable(<<"model_id", "parameter_count", "best_test_accuracy">>,
             << <<Str(<<>>), Num(90000), Num(50)>>,
                <<Str(TxtM1), Str(TxtNA), NaN>>,
                <<NaN, Num(150000000), Str(TxtBad)>> >>)}

AllNames == desired_columns \o <<"notes">>
Reversed(seq) == [i \in 1..Len(seq) |-> seq[Len(seq) + 1 - i]]

\* every set of columns, listed in allow-list order or in the reverse order, with
\* no row or one plain row
SchemaSweep ==
    LET cell(c) == IF c = "model_id" THEN Str(TxtM1)
                   ELSE IF c = "parameter_count" THEN Num(150000000)
                   ELSE IF c \in Range(numeric_columns) THEN Num(81)
                   ELSE Str(TxtD1)
    IN  {MkTable(cols, [i \in 1..n |-> [j \in 1..Len(cols) |-> cell(cols[j])]]) :
            cols \in {SelectSeq(order, LAMBDA c : c \in S) :
                        S \in SUBSET Range(AllNames),
                        order \in {AllNames, Reversed(AllNames)}},
            n \in 0..1}

IdCells == {Str(TxtM1), Str(TxtM2), Str(TxtPaddedM1), Str(<<>>), Str(TxtBlank), NaN}
NumCells == {Num(90), Num(20), Str(<<"0", ".", "7", "5">>), Str(TxtNA), NaN}

RowSweepColumns ==
    {desired_columns, <<"val_loss", "dataset", "model_id">>}

\* up to MaxRows rows, each with any identifier cell and any cell for its numeric
\* columns
RowSweep ==
    LET cell(c, r) == IF c = "model_id" THEN r[1]
                      ELSE IF c \in Range(numeric_columns) THEN r[2]
                      ELSE Str(TxtD1)
    IN  {MkTable(cols, [i \in 1..Len(rs) |-> [j \in 1..Len(cols) |-> cell(cols[j], rs[i])]]) :
            cols \in RowSweepColumns,
            rs \in UNION {[1..n -> IdCells \X NumCells] : n \in 0..MaxRows}}

\* accuracies [0.9, 0.2, 0.75] for ids [A, B, C]
SortingExample ==
    MkTable(<<"model_id", "best_test_accuracy">>,
            << <<Str(<<"A">>), Num(90)>>, <<Str(<<"B">>), Num(20)>>, <<Str(<<"C">>), Num(75)>> >>)

LoadedTables == SchemaSweep \cup RowSweep \cup {SortingExample}

---------------------------------------------------------------------------
\* Specifications

BrowserInit ==
    /\ view = "closed"
    /\ console = <<>>
    /\ tableBody = Skeleton
    /\ fetches = 0

\* Before a run of main: any set of candidate files, any earlier output.
Init ==
    /\ inputs \in SUBSET Range(data_paths)
    /\ fileData \in
         IF FirstExisting(inputs) = NoPath THEN {[readable |-> FALSE, table |-> NoTable]}
         ELSE [readable : BOOLEAN,
               table : IF FirstExisting(inputs).suffix = ".csv"
                       THEN CsvTables ELSE PickleTables]
    /\ dirs \in {{}, {"site"}, {"site", "site/data"}}
    /\ csvFile \in IF "site/data" \in dirs THEN {Absent, OldCsv} ELSE {Absent}
    /\ htmlFile \in IF "site" \in dirs THEN {NoHtml, OldHtml} ELSE {NoHtml}
    /\ pc = "start"
    /\ exitCode = -1
    /\ out = <<>>
    /\ halt = Running
    /\ data_path = NoPath
    /\ df = NoTable
    /\ df_processed = NoTable
    /\ BrowserInit

Next ==
    \/ FindInput
    \/ MkDirs
    \/ Load
    \/ Sanitize
    \/ WriteCsv
    \/ GenerateHtml
    \/ Finish
    \/ OpenPage
    \/ ParseComplete
    \/ ParseError

Spec == Init /\ [][Next]_vars

\* main after load_experiment_data has returned a stored table
InitLoaded ==
    /\ df \in LoadedTables
    /\ inputs = {data_paths[2]}
    /\ fileData = [readable |-> TRUE, table |-> df]
    /\ dirs = {"site", "site/data"}
    /\ csvFile = Absent
    /\ htmlFile = NoHtml
    /\ pc = "sanitize"
    /\ exitCode = -1
    /\ out = <<Msg("Loaded experiments", {}, <<>>, Len(df.rows))>>
    /\ halt = Running
    /\ data_path = data_paths[2]
    /\ df_processed = NoTable
    /\ BrowserInit

NextLoaded ==
    \/ Sanitize
    \/ WriteCsv
    \/ GenerateHtml
    \/ Finish

SpecLoaded == InitLoaded /\ [][NextLoaded]_vars

\* the steps of main around the call of sanitize_and_select_columns
BuildStep ==
    \/ FindInput
    \/ MkDirs
    \/ Load
    \/ WriteCsv
    \/ GenerateHtml
    \/ Finish

---------------------------------------------------------------------------
\* Properties

\* sanitize_and_select_columns has been called, and has returned
SanitizeCalled ==
    \/ pc \in {"write_csv", "gen_html", "finish"}
    \/ pc = "exited" /\ halt.stage \in {"", "sanitize", "write_csv", "gen_html"}
SanitizeReturned == SanitizeCalled /\ halt.stage # "sanitize"

\* generate_html has been called
GenerateHtmlCalled ==
    \/ pc = "finish"
    \/ pc = "exited" /\ halt.stage \in {"", "gen_html"}

Ids(d) == [i \in 1..Len(d.rows) |-> d.rows[i].cells["model_id"].s]
RowsWithIdx(d, x) == {i \in 1..Len(d.rows) : d.rows[i].idx = x}
InAllowListOrder(cols) ==
    \A i, j \in 1..Len(cols) :
        i < j => IndexOf(desired_columns, cols[i]) < IndexOf(desired_columns, cols[j])

\* C1: for every sanitized table lacking any of dataset, model_family or
\* parameter_count, generate_html does not raise and writes index.html (a failing
\* file write aside), the figure of an absent column being zero.
C1_HtmlToleratesAbsentStatColumns ==
    (/\ GenerateHtmlCalled
     /\ ~({"dataset", "model_family", "parameter_count"} \subseteq Range(df_processed.columns))
     /\ halt.reason # "OSError")
    => /\ halt = Running
       /\ htmlFile.state = "written"
       /\ "dataset" \notin Range(df_processed.columns) => htmlFile.page.datasets = 0
       /\ "model_family" \notin Range(df_processed.columns) => htmlFile.page.families = 0

\* C2: the end-to-end scenario (m1, 0.81), ("", 0.5), (m2, "bad") ends with the
\* sanitized rows m1 then m2, m2's accuracy 0.0, models.csv and index.html
\* written, and exit code 0.
C2_EndToEndScenario ==
    (/\ pc = "exited"
     /\ data_path.suffix = ".csv"
     /\ fileData.table = EndToEndCsv
     /\ halt.reason \notin {"OSError", "read_error"})
    => /\ Ids(df_processed) = <<TxtM1, TxtM2>>
       /\ df_processed.rows[2].cells["best_test_accuracy"] = Num(0)
       /\ csvFile.state = "written"
       /\ htmlFile.state = "written"
       /\ exitCode = 0

\* C3: for every input table missing some allow-listed columns, model_id
\* included, sanitize_and_select_columns returns, logs the missing set, and the
\* returned columns are the allow-listed columns present, in allow-list order.
C3_MissingColumnsNeverAbort ==
    (SanitizeCalled /\ Range(desired_columns) \ Range(df.columns) # {})
    => /\ SanitizeReturned
       /\ Range(df_processed.columns) = Range(desired_columns) \cap Range(df.columns)
       /\ InAllowListOrder(df_processed.columns)
       /\ \E k \in 1..Len(out) :
            /\ out[k].msg = "Warning: Missing columns"
            /\ out[k].set = Range(desired_columns) \ Range(df.columns)

\* a cell that is missing, or a text that is empty or whitespace only
BlankIdentifier(c) ==
    \/ c.k = "nan"
    \/ c.k = "str" /\ \A i \in 1..Len(c.s) : c.s[i] = " "

\* C4: every row whose identifier is empty, whitespace only or missing is absent
\* from the returned table, and every other row is present exactly once.
C4_BlankIdentifiersDropped ==
    SanitizeReturned =>
        \A i \in 1..Len(df.rows) :
            IF BlankIdentifier(df.rows[i].cells["model_id"])
            THEN RowsWithIdx(df_processed, df.rows[i].idx) = {}
            ELSE Cardinality(RowsWithIdx(df_processed, df.rows[i].idx)) = 1

\* C5: with best_test_accuracy among the surviving columns the returned rows are
\* in non-increasing order of it (ids A, B, C with 0.9, 0.2, 0.75 give A, C, B);
\* without it the surviving rows keep their input order.
C5_RowOrder ==
    SanitizeReturned =>
        LET rows == df_processed.rows IN
        /\ IF "best_test_accuracy" \in Range(df_processed.columns)
           THEN \A i \in 1..(Len(rows) - 1) :
                    /\ rows[i].cells["best_test_accuracy"].k = "num"
                    /\ rows[i + 1].cells["best_test_accuracy"].k = "num"
                    /\ rows[i].cells["best_test_accuracy"].n
                         >= rows[i + 1].cells["best_test_accuracy"].n
           ELSE \A i \in 1..(Len(rows) - 1) : rows[i].idx < rows[i + 1].idx
        /\ df = SortingExample => Ids(df_processed) = <<<<"A">>, <<"C">>, <<"B">> >>

C5_Witness ==
    /\ pc = "write_csv"
    /\ df = SortingExample
    /\ Ids(df_processed) = <<<<"A">>, <<"C">>, <<"B">> >>

\* the value a cell of a numeric column stands for, -1 when it stands for none
NumberOfCell(c) ==
    IF c.k = "num" THEN c.n
    ELSE IF c = Str(<<"0", ".", "7", "5">>) THEN 75
    ELSE -1

DesignatedDefault(col) ==
    IF col \in {"val_loss", "test_loss"} THEN Inf ELSE Num(0)

\* C6: a numeric-column cell that is missing or not a number never aborts
\* sanitize_and_select_columns and comes out as the column's default (0.0, +inf
\* for the losses, 0 for parameter_count); a numeric cell keeps its value.
C6_NumericDefaults ==
    /\ (SanitizeCalled /\ "model_id" \in Range(df.columns)) => SanitizeReturned
    /\ SanitizeReturned =>
        \A o \in Range(df_processed.rows) :
            \A c \in Range(numeric_columns) \cap Range(df_processed.columns) :
                \A i \in RowsWithIdx(df, o.idx) :
                    IF NumberOfCell(df.rows[i].cells[c]) = -1
                    THEN o.cells[c] = DesignatedDefault(c)
                    ELSE o.cells[c] = Num(NumberOfCell(df.rows[i].cells[c]))

C6_Witness ==
    /\ pc = "write_csv"
    /\ \E o \in Range(df_processed.rows) :
        \E i \in RowsWithIdx(df, o.idx) :
            /\ "val_loss" \in Range(df_processed.columns)
            /\ "best_test_accuracy" \in Range(df_processed.columns)
            /\ df.rows[i].cells["val_loss"] = Str(TxtNA)
            /\ o.cells["val_loss"] = Inf
            /\ o.cells["best_test_accuracy"] = Num(0)

\* C7: with no candidate input file, main prints every candidate path and exits
\* with code 1 before any stage runs: directories, models.csv and index.html
\* stay as they were.
C7_NoInputLeavesOutputAlone ==
    /\ []((inputs = {} /\ pc = "exited") =>
            /\ exitCode = 1
            /\ halt = Halted("discover", "no_input")
            /\ \A i \in 1..Len(data_paths) :
                 \E k \in 1..Len(out) : out[k] = Msg("path", {data_paths[i]}, <<>>, 0))
    /\ [][inputs = {} =>
            /\ dirs' = dirs
            /\ csvFile' = csvFile
            /\ htmlFile' = htmlFile
            /\ pc' = "exited"]_vars

C7_Witness ==
    /\ inputs = {}
    /\ pc = "exited"
    /\ exitCode = 1
    /\ dirs = {}
    /\ Len(out) = 4

\* the order of the positions of main
StageRank(p) ==
    IndexOf(<<"start", "mkdir", "load", "sanitize", "write_csv", "gen_html",
              "finish", "exited">>, p)

\* C8: every run ends (a step is possible until the process has exited, and each
\* step moves main forward), with exit code 0 and both artifacts written by the run, or
\* with exit code 1 at the first fatal condition and no later stage executed;
\* index.html is never written before models.csv.
C8_ExitCodes ==
    /\ [](/\ pc \notin {"exited", "sanitize"} => ENABLED BuildStep
          /\ pc = "sanitize" =>
                \/ "model_id" \notin Range(df.columns)
                \/ SanitizeOutcomes(df) # {}
          /\ (pc = "exited") <=> (exitCode \in {0, 1})
          /\ (pc # "exited") => (exitCode = -1)
          /\ exitCode = 0 =>
                /\ halt = Running
                /\ csvFile.state = "written"
                /\ htmlFile.state = "written"
          /\ exitCode = 1 =>
                /\ halt.stage \in {"discover", "mkdir", "load", "sanitize",
                                   "write_csv", "gen_html"}
                /\ htmlFile.state # "written"
                /\ halt.stage # "gen_html" => csvFile.state # "written"
                /\ halt.stage \in {"discover", "mkdir", "load", "sanitize"}
                     => df_processed = NoTable
                /\ halt.stage \in {"discover", "mkdir", "load"} => df = NoTable
                /\ \A k \in 1..Len(out) : out[k].msg # "Build complete!"
          /\ htmlFile.state = "written" => csvFile.state = "written")
    /\ [][/\ pc = "exited" => UNCHANGED buildVars
          /\ pc' # pc => StageRank(pc') > StageRank(pc)]_vars

C8_Witness ==
    /\ exitCode = 0
    /\ csvFile.state = "written"
    /\ htmlFile.state = "written"
    /\ Len(df_processed.rows) = 2

\* C9: in every page with best_test_accuracy among its columns, the default
\* client-side sort is descending on the index of best_test_accuracy in the
\* page's column list.
C9_DefaultSortOnTestAccuracy ==
    (htmlFile.state = "written" /\ "best_test_accuracy" \in Range(htmlFile.page.js_columns))
    => htmlFile.page.order =
         <<IndexOf(htmlFile.page.js_columns, "best_test_accuracy") - 1, "desc">>

\* C10: on every failure to load or parse data/models.csv (the error callback,
\* and a completed parse with errors) the script logs to the console, shows the
\* inline error row, does not initialize the table, and does not retry.
C10_ParseFailureShowsInlineError ==
    view \in {"load_error", "parse_errors"} =>
        /\ console # <<>>
        /\ tableBody.kind = "error_row"
        /\ fetches = 1

====
